---- MODULE Spec2Model ----
(***************************************************************************)
(* Model of octopus.py: the half-hourly price ingestion pipeline           *)
(* (get_price -> to_timezone -> insert_price), the low-price report        *)
(* (get_hours_below_price -> format_hours) and the notification of main.   *)
(*                                                                         *)
(* Time.  A UTC instant is a number of seconds since 2021-01-01T00:00:00Z. *)
(* A civil (zone-less) datetime, which is what strftime('%Y-%m-%d          *)
(* %H:%M:%S') yields and what a MySQL `datetime` column stores, is a       *)
(* number of seconds since 2021-01-01 00:00:00 on the wall clock.  Both    *)
(* orders (chronological, and MySQL's order of datetime values) are the    *)
(* order of the integers.                                                  *)
(*                                                                         *)
(* Store.  `price` is the committed content of the table octopus.price;    *)
(* pending[r] holds the rows run r has inserted and not yet committed      *)
(* (MySQLdb connections do not autocommit).  A run that dies on an         *)
(* exception never reaches con.commit(), so its pending rows are dropped.  *)
(* The primary key is enforced across transactions: an INSERT of a key     *)
(* that another open transaction has inserted waits for that transaction,  *)
(* and the server may end the wait with an error.                          *)
(*                                                                         *)
(* Runs.  Two invocations of main, which the scheduler may start one after *)
(* the other or while the first is still running; every interleaving of    *)
(* their steps is a behaviour.                                             *)
(***************************************************************************)
EXTENDS Integers, Sequences, FiniteSets, TLC

VARIABLES
    db_exists,      \* database octopus and table price exist
    price,          \* committed rows of table price
    pending,        \* pending[r]: rows of run r's open transaction
    pc,             \* pc[r]: where run r of main is
    unit_rates,     \* unit_rates[r]: what get_price returned to run r
    done_rows,      \* done_rows[r]: number of results the insert loop has handled
    err,            \* err[r]: the exception that ended run r, and where it was raised
    ti,             \* ti[r]: index in thresholds of the next report section
    html,           \* html[r]: the report built so far
    outbox,         \* messages handed to the Gmail API
    now,            \* the UTC clock, as datetime.utcnow() reads it
    batch,          \* history: records whose INSERT run r has executed
    ingested,       \* history: records whose INSERT was executed by a committed batch
    answers,        \* history: answers[r][k] is what get_hours_below_price returned for section k
    hours,          \* merge loop: the rows the SELECT returned
    continuous_hours, \* merge loop: the intervals built so far
    next_hour,      \* merge loop: index in hours of the next row
    mpc             \* merge loop: position

store_vars == <<db_exists, price, pending, now>>
run_vars   == <<pc, unit_rates, done_rows, err, ti, html, outbox>>
hist_vars  == <<batch, ingested, answers>>
merge_vars == <<hours, continuous_hours, next_hour, mpc>>
vars == <<db_exists, price, pending, now, pc, unit_rates, done_rows, err, ti, html,
          outbox, batch, ingested, answers, hours, continuous_hours, next_hour, mpc>>

----------------------------------------------------------------------------
(* Bounds *)

\* longest `results` array of a response
MaxBatch == 2
\* longest SELECT result fed to the merge loop on its own
MaxHours == 3
\* civil datetimes of the merge loop's own inputs are 0..MaxTime
MaxTime == 4

\* the overlapping invocations of main
Runs == {"run1", "run2"}

----------------------------------------------------------------------------
(* Time: Europe/London in 2021 *)

HalfHour == 30 * 60
Hour == 60 * 60
Day == 24 * Hour

\* 2021-03-28T01:00:00Z, when BST begins (86 days after 1 January)
DstStart == 86 * Day + Hour
\* 2021-10-31T01:00:00Z, when BST ends (303 days after 1 January)
DstEnd == 303 * Day + Hour

\* A timestamp string of the API: well-formed ISO-8601 ending in Z, or not
Timestamp(u) == [wf |-> TRUE, utc |-> u]
Malformed == [wf |-> FALSE, utc |-> 0]

\* datetime.fromisoformat(t[:-1] + '+00:00'): raises ValueError on a malformed string
fromisoformat_raises(t) == ~t.wf
fromisoformat(t) == t.utc

\* pytz.timezone('Europe/London'): the offset from UTC in force at UTC instant u
utcoffset(u) == IF DstStart <= u /\ u < DstEnd THEN Hour ELSE 0

\* t.astimezone(tz): the same instant with the zone's wall clock and offset
astimezone(u) == [wall |-> u + utcoffset(u), offset |-> utcoffset(u)]

\* t.strftime('%Y-%m-%d %H:%M:%S'): the wall clock alone, the offset is not printed
strftime(d) == d.wall

to_timezone(t) == strftime(astimezone(fromisoformat(t)))

\* the date part of a civil datetime: .split(' ')[0]
DateOf(c) == c \div Day

\* str(h)[0:-3]: a datetime printed without its seconds, i.e. a civil minute
WithoutSeconds(c) == c \div 60

----------------------------------------------------------------------------
(* What the tariff API can answer *)

\* UTC half-hours around the end of BST: 00:00Z, 00:30Z and 01:00Z of 2021-10-31,
\* which Europe/London shows as 01:00 BST, 01:30 BST and 01:00 GMT
Instants == {DstEnd - Hour, DstEnd - HalfHour, DstEnd}

\* value_inc_vat, chosen around the thresholds
Values == {5, 15}

WellFormedRecords ==
    {[valid_from |-> Timestamp(u), valid_to |-> Timestamp(u + HalfHour), value_inc_vat |-> v] :
        u \in Instants, v \in Values}

\* a record whose valid_to cannot be parsed
BadRecord == [valid_from |-> Timestamp(DstEnd), valid_to |-> Malformed, value_inc_vat |-> 5]

Records == WellFormedRecords \cup {BadRecord}

\* requests.get raises (no network); resp.json() raises (body is not JSON);
\* a JSON body without `results` (the API's error object of a non-2xx answer);
\* a JSON body with `results` of n records
Responses ==
    {[kind |-> k, n |-> 0] : k \in {"unreachable", "not_json", "no_results"}}
    \cup {[kind |-> "results", n |-> n] : n \in 0..MaxBatch}

NoResponse == [kind |-> "none", n |-> 0]

\* the readings of the UTC clock: the day before the records' day, and the day after
Clock == {DstEnd - Day, DstEnd + Day}

----------------------------------------------------------------------------
(* The store *)

HasKey(rows, k) == \E x \in rows : x.from_period = k

\* CREATE TABLE IF NOT EXISTS price (from_period datetime PRIMARY KEY, ...):
\* the rows of the table after the statement
\* (faulty variant: the table is created afresh, as after DROP TABLE)
create_table_drops(exists, rows) == {}
create_table_rows(exists, rows) == IF exists THEN rows ELSE {}

\* INSERT IGNORE INTO price VALUES (from_period, to_period, price), on the rows
\* the transaction sees: a row whose primary key is there already is skipped
\* with a warning, not an error
\* (faulty variant: from_period is no key, nothing is ever skipped)
INSERT_no_key(view, row) == [rows |-> view \cup {row}, error |-> "none"]
INSERT_IGNORE(view, row) ==
    IF HasKey(view, row.from_period)
    THEN [rows |-> view, error |-> "none"]
    ELSE [rows |-> view \cup {row}, error |-> "none"]

\* the row insert_price builds from a record p of `results`
RowOf(p) == [from_period |-> to_timezone(p.valid_from),
             to_period   |-> to_timezone(p.valid_to),
             price       |-> p.value_inc_vat]

----------------------------------------------------------------------------
(* The report *)

thresholds == <<20, 10, 0>>

\* ORDER BY from_period ASC: the rows of S as a sequence, smallest key first
RECURSIVE OrderBy(_)
OrderBy(S) ==
    IF S = {} THEN <<>>
    ELSE LET m == CHOOSE x \in S : \A y \in S : x.from_period <= y.from_period
         IN  <<m>> \o OrderBy(S \ {m})

\* SELECT from_period, to_period FROM price
\* WHERE from_period BETWEEN "{today} 00:00:00" AND "{tomorrow} 23:59:59"
\* AND price < {price} ORDER BY from_period ASC
Select(rows, today, tomorrow, limit) ==
    LET S == {x \in rows : /\ today * Day <= x.from_period
                           /\ x.from_period <= tomorrow * Day + (Day - 1)
                           /\ x.price < limit}
        O == OrderBy(S)
    IN  [k \in 1..Len(O) |-> <<O[k].from_period, O[k].to_period>>]

\* One pass of the loop `for hour in hours[1:]`, on the intervals ch built so far
\* (faulty variants: joining on <= instead of ==; comparing with the interval's
\* start; joining without moving the interval's end)
MergeStep_overlap(ch, hour) ==
    IF hour[1] <= ch[Len(ch)][2]
    THEN [ch EXCEPT ![Len(ch)][2] = hour[2]]
    ELSE Append(ch, hour)
MergeStep_start(ch, hour) ==
    IF hour[1] = ch[Len(ch)][1]
    THEN [ch EXCEPT ![Len(ch)][2] = hour[2]]
    ELSE Append(ch, hour)
MergeStep_keep(ch, hour) ==
    IF hour[1] = ch[Len(ch)][2]
    THEN ch
    ELSE Append(ch, hour)
MergeStep(ch, hour) ==
    IF hour[1] = ch[Len(ch)][2]
    THEN [ch EXCEPT ![Len(ch)][2] = hour[2]]
    ELSE Append(ch, hour)

\* The loop from row k of hs on
RECURSIVE MergeFrom(_, _, _)
MergeFrom(ch, hs, k) ==
    IF k > Len(hs) THEN ch ELSE MergeFrom(MergeStep(ch, hs[k]), hs, k + 1)

\* continuous_hours = [list(hours[0])], then the loop over hours[1:]
Concat(hs) == MergeFrom(<<hs[1]>>, hs, 2)

\* get_hours_below_price(con, price) on the rows the connection sees, with the
\* two readings now1, now2 of the UTC clock it takes
get_hours_below_price(rows, limit, now1, now2) ==
    LET today    == DateOf(to_timezone(Timestamp(now1)))
        tomorrow == DateOf(to_timezone(Timestamp(now2 + Day)))
        hs       == Select(rows, today, tomorrow, limit)
    IN  IF hs = <<>> THEN <<>>
        ELSE LET ch == Concat(hs)
             IN  [k \in 1..Len(ch) |-> <<WithoutSeconds(ch[k][1]), WithoutSeconds(ch[k][2])>>]

\* an element of the HTML text
Tag(name, a, b) == [tag |-> name, a |-> a, b |-> b]

\* format_hours(hours): one <tr> per interval
format_hours(hs) == [k \in 1..Len(hs) |-> Tag("tr", hs[k][1], hs[k][2])]

\* the text main appends for threshold t: header, table frame, rows, end of table
\* (faulty variant: no section for a threshold without hours)
Section_if_any(t, hs) ==
    IF hs = <<>> THEN <<>>
    ELSE <<Tag("b", t, 0), Tag("table", 0, 0), Tag("th", 0, 0)>>
         \o format_hours(hs) \o <<Tag("/table", 0, 0)>>
Section(t, hs) ==
    <<Tag("b", t, 0), Tag("table", 0, 0), Tag("th", 0, 0)>>
    \o format_hours(hs) \o <<Tag("/table", 0, 0)>>

----------------------------------------------------------------------------
(* One run of main *)

NoError == [type |-> "none", raised_in |-> "none"]

\* An exception nobody catches leaves main: the run is over, and the connection
\* is closed with its transaction uncommitted
\* (faulty variant: the exception is caught and main goes on to the report)
Raise_swallowed(r, type, where) ==
    /\ pc' = [pc EXCEPT ![r] = "report"]
    /\ err' = [err EXCEPT ![r] = [type |-> type, raised_in |-> where]]
    /\ pending' = [pending EXCEPT ![r] = {}]
    /\ batch' = [batch EXCEPT ![r] = {}]
    /\ ti' = [ti EXCEPT ![r] = 1]
    /\ UNCHANGED <<db_exists, price, now, unit_rates, done_rows, html, outbox, ingested, answers>>
Raise(r, type, where) ==
    /\ pc' = [pc EXCEPT ![r] = "aborted"]
    /\ err' = [err EXCEPT ![r] = [type |-> type, raised_in |-> where]]
    /\ pending' = [pending EXCEPT ![r] = {}]
    /\ batch' = [batch EXCEPT ![r] = {}]
    /\ UNCHANGED <<db_exists, price, now, unit_rates, done_rows, ti, html, outbox, ingested, answers>>

\* create_table(con), run by hand (main's call is commented out)
create_table ==
    /\ db_exists' = TRUE
    /\ price' = create_table_rows(db_exists, price)
    /\ UNCHANGED <<pending, now, run_vars, hist_vars, merge_vars>>

\* time passes
tick ==
    /\ \E later \in Clock : later > now /\ now' = later
    /\ UNCHANGED <<db_exists, price, pending, run_vars, hist_vars, merge_vars>>

\* unit_rates = get_price(api_key, product_code)
get_price(r) ==
    /\ pc[r] = "start"
    /\ \E resp \in Responses :
         CASE resp.kind = "unreachable" -> Raise(r, "ConnectionError", "get_price")
           [] resp.kind = "not_json"    -> Raise(r, "JSONDecodeError", "get_price")
           [] OTHER ->
                /\ unit_rates' = [unit_rates EXCEPT ![r] = resp]
                /\ pc' = [pc EXCEPT ![r] = "insert_price"]
                /\ UNCHANGED <<store_vars, done_rows, err, ti, html, outbox, hist_vars>>
    /\ UNCHANGED merge_vars

\* insert_price, up to the loop: USE octopus, then prices['results']
insert_price_begin(r) ==
    /\ pc[r] = "insert_price"
    /\ IF ~db_exists
       THEN Raise(r, "OperationalError", "insert_price")
       ELSE IF unit_rates[r].kind # "results"
       THEN Raise(r, "KeyError", "insert_price")
       ELSE /\ pc' = [pc EXCEPT ![r] = "insert_loop"]
            /\ done_rows' = [done_rows EXCEPT ![r] = 0]
            /\ UNCHANGED <<store_vars, unit_rates, err, ti, html, outbox, hist_vars>>
    /\ UNCHANGED merge_vars

\* the primary key k is held by a row another run has inserted and not committed
LockedByOther(r, k) == \E o \in Runs \ {r} : HasKey(pending[o], k)

\* insert_price, one pass of `for p in prices['results']`.  The records of
\* `results` are drawn as the loop reaches them: nothing reads a record earlier.
insert_price_row(r) ==
    /\ pc[r] = "insert_loop"
    /\ done_rows[r] < unit_rates[r].n
    /\ \E p \in Records :
         IF fromisoformat_raises(p.valid_from) \/ fromisoformat_raises(p.valid_to)
         THEN Raise(r, "ValueError", "to_timezone")
         ELSE LET row == RowOf(p)
                  out == INSERT_IGNORE(price \cup pending[r], row)
              IN  IF LockedByOther(r, row.from_period)
                  \* the statement waits for the other transaction to end; the
                  \* server may give up the wait (lock wait timeout, deadlock)
                  THEN Raise(r, "OperationalError", "insert_price")
                  ELSE IF out.error # "none"
                  THEN Raise(r, out.error, "insert_price")
                  ELSE /\ pending' = [pending EXCEPT ![r] = out.rows \ price]
                       /\ batch' = [batch EXCEPT ![r] = @ \cup {p}]
                       /\ done_rows' = [done_rows EXCEPT ![r] = @ + 1]
                       /\ UNCHANGED <<db_exists, price, now, pc, unit_rates, err, ti, html,
                                      outbox, ingested, answers>>
    /\ UNCHANGED merge_vars

\* insert_price, after the loop: con.commit()
insert_price_commit(r) ==
    /\ pc[r] = "insert_loop"
    /\ done_rows[r] = unit_rates[r].n
    /\ price' = price \cup pending[r]
    /\ pending' = [pending EXCEPT ![r] = {}]
    /\ ingested' = ingested \cup batch[r]
    /\ batch' = [batch EXCEPT ![r] = {}]
    /\ pc' = [pc EXCEPT ![r] = "report"]
    /\ ti' = [ti EXCEPT ![r] = 1]
    /\ UNCHANGED <<db_exists, now, unit_rates, done_rows, err, html, outbox, answers, merge_vars>>

\* one pass of `for t in thresholds`
report_section(r) ==
    /\ pc[r] = "report"
    /\ \E now2 \in Clock :
         /\ now <= now2
         /\ now' = now2
         /\ LET t  == thresholds[ti[r]]
                hs == get_hours_below_price(price \cup pending[r], t, now, now2)
            IN  /\ html' = [html EXCEPT ![r] = @ \o Section(t, hs)]
                /\ answers' = [answers EXCEPT ![r] = Append(@, hs)]
    /\ ti' = [ti EXCEPT ![r] = @ + 1]
    /\ pc' = [pc EXCEPT ![r] = IF ti[r] = Len(thresholds) THEN "notify" ELSE "report"]
    /\ UNCHANGED <<db_exists, price, pending, unit_rates, done_rows, err, outbox, batch,
                   ingested, merge_vars>>

\* gmail_send(recipients, 'Octopus price', html)
gmail_send(r) ==
    /\ pc[r] = "notify"
    /\ \/ /\ outbox' = outbox \cup {[run |-> r, subject |-> "Octopus price", body |-> html[r]]}
          /\ pc' = [pc EXCEPT ![r] = "done"]
          /\ UNCHANGED <<store_vars, unit_rates, done_rows, err, ti, html, hist_vars>>
       \/ Raise(r, "HttpError", "gmail_send")
    /\ UNCHANGED merge_vars

main(r) ==
    \/ get_price(r)
    \/ insert_price_begin(r)
    \/ insert_price_row(r)
    \/ insert_price_commit(r)
    \/ report_section(r)
    \/ gmail_send(r)

Init ==
    /\ db_exists = FALSE
    /\ price = {}
    /\ now = DstEnd - Day
    /\ pending = [r \in Runs |-> {}]
    /\ pc = [r \in Runs |-> "start"]
    /\ unit_rates = [r \in Runs |-> NoResponse]
    /\ done_rows = [r \in Runs |-> 0]
    /\ err = [r \in Runs |-> NoError]
    /\ ti = [r \in Runs |-> 0]
    /\ html = [r \in Runs |-> <<>>]
    /\ outbox = {}
    /\ batch = [r \in Runs |-> {}]
    /\ ingested = {}
    /\ answers = [r \in Runs |-> <<>>]
    /\ hours = <<>>
    /\ continuous_hours = <<>>
    /\ next_hour = 0
    /\ mpc = "off"

Next ==
    \/ create_table
    \/ tick
    \/ \E r \in Runs : main(r)

Spec == Init /\ [][Next]_vars

----------------------------------------------------------------------------
(* The merge loop of get_hours_below_price on its own, one pass per step,   *)
(* on every ascending SELECT result within the bounds                       *)

Periods == (0..MaxTime) \X (0..MaxTime)

\* what ORDER BY from_period ASC can hand to the loop
Ascending(hs) == \A k \in 1..(Len(hs) - 1) : hs[k][1] <= hs[k + 1][1]

AscendingInputs ==
    UNION {{hs \in [1..n -> Periods] : Ascending(hs)} : n \in 0..MaxHours}

\* hours = cur.fetchall(); if not hours: return []; continuous_hours = [list(hours[0])]
merge_begin ==
    /\ mpc = "fetched"
    /\ IF hours = <<>>
       THEN /\ mpc' = "returned"
            /\ UNCHANGED <<continuous_hours, next_hour>>
       ELSE /\ continuous_hours' = <<hours[1]>>
            /\ next_hour' = 2
            /\ mpc' = "loop"
    /\ UNCHANGED <<hours, store_vars, run_vars, hist_vars>>

\* for hour in hours[1:]
merge_pass ==
    /\ mpc = "loop"
    /\ next_hour <= Len(hours)
    /\ continuous_hours' = MergeStep(continuous_hours, hours[next_hour])
    /\ next_hour' = next_hour + 1
    /\ UNCHANGED <<hours, mpc, store_vars, run_vars, hist_vars>>

\* the loop is over
merge_end ==
    /\ mpc = "loop"
    /\ next_hour > Len(hours)
    /\ mpc' = "returned"
    /\ UNCHANGED <<hours, continuous_hours, next_hour, store_vars, run_vars, hist_vars>>

InitMerge ==
    /\ db_exists = FALSE
    /\ price = {}
    /\ now = DstEnd - Day
    /\ pending = [r \in Runs |-> {}]
    /\ pc = [r \in Runs |-> "start"]
    /\ unit_rates = [r \in Runs |-> NoResponse]
    /\ done_rows = [r \in Runs |-> 0]
    /\ err = [r \in Runs |-> NoError]
    /\ ti = [r \in Runs |-> 0]
    /\ html = [r \in Runs |-> <<>>]
    /\ outbox = {}
    /\ batch = [r \in Runs |-> {}]
    /\ ingested = {}
    /\ answers = [r \in Runs |-> <<>>]
    /\ hours \in AscendingInputs
    /\ continuous_hours = <<>>
    /\ next_hour = 0
    /\ mpc = "fetched"

NextMerge == merge_begin \/ merge_pass \/ merge_end

SpecMerge == InitMerge /\ [][NextMerge]_vars

----------------------------------------------------------------------------
(* Properties *)

Keys(rows) == {x.from_period : x \in rows}
RowsAt(rows, k) == {x \in rows : x.from_period = k}
IngestedKeys == {to_timezone(p.valid_from) : p \in ingested}
SentBy(r) == {m \in outbox : m.run = r}

\* C1: after any sequence of committed insert_price batches, repeated records and
\* overlapping runs included, the table holds exactly one row for each from_period
\* that was ingested, and a from_period that is already stored raises no
\* duplicate-key error.
C1_OneRowPerFromPeriod ==
    /\ Keys(price) = IngestedKeys
    /\ \A k \in IngestedKeys : Cardinality(RowsAt(price, k)) = 1
    /\ \A r \in Runs : err[r].type # "IntegrityError"

\* two different records with the same from_period were ingested, by two runs
\* that both went through to the end
C1_Witness ==
    /\ \E p, q \in ingested : p # q /\ to_timezone(p.valid_from) = to_timezone(q.valid_from)
    /\ \A r \in Runs : pc[r] = "done" /\ unit_rates[r].n > 0

\* C2: a run whose fetch was answered with a JSON body without `results` (invalid
\* API key) ends, the store being available, with an error raised by the fetch,
\* get_price, and has inserted nothing.
C2_InvalidKeyIsFetchError ==
    \A r \in Runs :
        (/\ unit_rates[r].kind = "no_results"
         /\ pc[r] \in {"aborted", "done"}
         /\ err[r].type # "OperationalError") =>
            /\ pc[r] = "aborted"
            /\ err[r].raised_in = "get_price"
            /\ pending[r] = {}

\* C3: a notification of a run is in the outbox only if the run's get_price
\* returned results and its insert_price handled all of them and committed, without
\* any error; a run that failed in get_price, to_timezone or insert_price has sent
\* nothing.
C3_NotifyOnlyAfterIngest ==
    /\ \A m \in outbox :
          /\ err[m.run] = NoError
          /\ unit_rates[m.run].kind = "results"
          /\ done_rows[m.run] = unit_rates[m.run].n
          /\ pc[m.run] = "done"
    /\ \A r \in Runs :
          err[r].raised_in \in {"get_price", "to_timezone", "insert_price"} =>
              /\ pc[r] = "aborted"
              /\ SentBy(r) = {}

\* one run died in to_timezone inside insert_price, the other one has notified
C3_Witness ==
    \E r, o \in Runs :
        /\ pc[r] = "aborted" /\ err[r].raised_in = "to_timezone" /\ done_rows[r] > 0
        /\ SentBy(o) # {}

Contiguous(hs) == \A k \in 1..(Len(hs) - 1) : hs[k + 1][1] = hs[k][2]
NowhereContiguous(hs) == \A k \in 1..(Len(hs) - 1) : hs[k + 1][1] # hs[k][2]

\* C4: for a non-empty ascending, pairwise contiguous input the merge loop ends
\* with exactly one interval, from the first period's from to the last period's to.
C4_ContiguousMergeToOne ==
    (mpc = "returned" /\ hours # <<>> /\ Contiguous(hours)) =>
        continuous_hours = << <<hours[1][1], hours[Len(hours)][2]>> >>

C4_Witness ==
    /\ mpc = "returned" /\ Len(hours) = MaxHours /\ Contiguous(hours)
    /\ \A k \in 1..Len(hours) : hours[k][1] < hours[k][2]

\* C5: for an ascending input in which no period starts where the previous one
\* ends, the merge loop ends with the input periods themselves, one interval each.
C5_DisjointKeepCount ==
    (mpc = "returned" /\ NowhereContiguous(hours)) => continuous_hours = hours

C5_Witness ==
    /\ mpc = "returned" /\ Len(hours) = MaxHours /\ NowhereContiguous(hours)
    /\ \A k \in 1..Len(hours) : hours[k][1] < hours[k][2]
    /\ \E k \in 1..(Len(hours) - 1) : hours[k + 1][1] < hours[k][2]

\* the rows of hs that open an interval: the first, and each one that does not
\* start where its predecessor ends
Openers(hs) == {k \in 1..Len(hs) : k = 1 \/ hs[k][1] # hs[k - 1][2]}
\* the j-th smallest member of a set of numbers
Nth(S, j) == CHOOSE s \in S : Cardinality({x \in S : x <= s}) = j
\* the last row of the run opened by the j-th opener
RunEnd(hs, j) ==
    IF j = Cardinality(Openers(hs)) THEN Len(hs) ELSE Nth(Openers(hs), j + 1) - 1

\* C9: for an ascending input the merge loop ends with the maximal contiguous runs
\* of the input, in input order: a row joins its predecessor's interval iff it
\* starts exactly where the predecessor ends, each interval goes from the from of
\* its first row to the to of its last, and no interval starts where the previous
\* interval ends.
C9_MaximalContiguousRuns ==
    mpc = "returned" =>
        /\ Len(continuous_hours) = Cardinality(Openers(hours))
        /\ \A j \in 1..Len(continuous_hours) :
              continuous_hours[j] =
                  <<hours[Nth(Openers(hours), j)][1], hours[RunEnd(hours, j)][2]>>
        /\ NowhereContiguous(continuous_hours)

\* the example [(08:00,08:30),(08:30,09:00),(10:00,10:30)] in half-hours from 08:00,
\* with 10:00 brought down to 09:30: a run of two, then a run of one
C9_Witness ==
    /\ mpc = "returned"
    /\ hours = << <<0, 1>>, <<1, 2>>, <<3, 4>> >>
    /\ continuous_hours = << <<0, 2>>, <<3, 4>> >>

\* the positions of the section headers in a report
Headers(H) == {k \in 1..Len(H) : H[k].tag = "b"}
\* the number of <tr> rows between position k and the next end of table
RowsAfter(H, k) ==
    LET close == Nth({e \in k..Len(H) : H[e].tag = "/table"}, 1)
    IN  Cardinality({e \in k..close : H[e].tag = "tr"})

\* C6: the report a run hands to gmail_send has one section per threshold 20, 10, 0,
\* in that order, each with its header and table frame whatever the others hold; a
\* threshold no stored row is below is answered with the empty list and its section
\* has zero rows.
C6_EverySectionPresent ==
    \A r \in Runs : pc[r] \in {"notify", "done"} =>
        LET H == html[r] IN
        /\ Len(answers[r]) = Len(thresholds)
        /\ Cardinality(Headers(H)) = Len(thresholds)
        /\ \A j \in 1..Len(thresholds) :
              LET k == Nth(Headers(H), j) IN
              /\ H[k] = Tag("b", thresholds[j], 0)
              /\ H[k + 1].tag = "table"
              /\ H[k + 2].tag = "th"
              /\ RowsAfter(H, k) = Len(answers[r][j])
              /\ {x \in price : x.price < thresholds[j]} = {} =>
                     answers[r][j] = <<>> /\ H[k + 3].tag = "/table"

\* a run whose report has rows below 20 and none below 10 nor below 0
C6_Witness ==
    \E r \in Runs :
        /\ pc[r] = "done"
        /\ answers[r][1] # <<>> /\ answers[r][2] = <<>> /\ answers[r][3] = <<>>
        /\ {x \in price : x.price < 10} = {}

\* C7: a committed row of the price table is never changed nor removed, by any
\* step of any run or of create_table.
C7_AppendOnly == [][price \subseteq price']_vars

\* a record was ingested whose from_period was stored already with another price:
\* the stored row is not the record's
C7_Witness ==
    \E p \in ingested :
        /\ RowOf(p) \notin price
        /\ \E x \in price : x.from_period = RowOf(p).from_period /\ x.price # p.value_inc_vat

\* C8: every stored row has from_period < to_period (every record the API model
\* offers has valid_from < valid_to in UTC).
C8_FromBeforeTo == \A x \in price : x.from_period < x.to_period

\* C10: the committed batches have stored one row per distinct UTC valid_from they
\* held: distinct instants have distinct from_period keys.
C10_NoPeriodLost ==
    /\ \A p, q \in ingested :
          p.valid_from # q.valid_from => to_timezone(p.valid_from) # to_timezone(q.valid_from)
    /\ Cardinality(price) = Cardinality({p.valid_from : p \in ingested})

====
